---- MODULE Spec2Model ----
(***************************************************************************)
(* Mail transaction log manager (src/src/lib-index/mail-transaction-log.c) *)
(* shared by several processes through one index directory.                *)
(*                                                                         *)
(* Each process owns a struct mail_transaction_log: head, the files list,  *)
(* open_file and the LogFile objects they point to.  The processes share   *)
(* the directory: the canonical "<index>.log" path, the "<index>.log.2"    *)
(* archive path, the inodes behind them and the whole-file advisory lock   *)
(* of each inode.                                                          *)
(*                                                                         *)
(* The functions of mail-transaction-log-file.c and the view registry are  *)
(* called by the manager but are not part of the sources at hand; they are *)
(* modelled from the specification (file_alloc, file_free, file_open,      *)
(* file_create, file_lock, file_unlock, file_map, views_close, append).    *)
(***************************************************************************)
EXTENDS Integers, Sequences, FiniteSets, TLC

\* ---------------------------------------------------------------- bounds
\* highest file_seq a log segment may get (rotation stops there)
MaxSeq == 4
\* highest byte offset a segment may grow to
MaxOff == 2
\* LogFile objects one process may hold at a time
MaxObj == 3
\* views (readers) one process may have open at a time
MaxViews == 1
\* how far the clock (ioloop_time) advances
MaxTime == 2
\* message uids a session may ask for
MaxUid == 17
\* calls of imap_msgcache_open for a uid that is already cached
MaxReopen == 1
\* calls of imap_msgcache_clear
MaxClear == 2
\* highest local_bits / remote_bits of a configuration filter
MaxBits == 1
\* parsers one configuration context may hold
MaxParsers == 3

\* size of the log header: a fresh segment has sync_offset == HdrSize
HdrSize == 1

\* rotation thresholds (mail-transaction-log-private.h), scaled: a file
\* of header size is not above the minimum size
MAIL_TRANSACTION_LOG_ROTATE_MIN_SIZE == HdrSize
MAIL_TRANSACTION_LOG_ROTATE_MAX_SIZE == HdrSize + 1
MAIL_TRANSACTION_LOG_ROTATE_TIME == 1

Procs == {1, 2}
ObjIds == 1..MaxObj
Inos == 1..MaxSeq

VARIABLES
    log,      \* log[p]: struct mail_transaction_log of process p
              \*   head, open_file: object id or 0 (NULL)
              \*   files: the log->files list (sequence of object ids)
              \*   objs: the LogFile objects, by object id
    index,    \* index[p]: [log_locked, in_memory] of the owning mail_index
    views,    \* views[p][o]: number of open views of p that pin object o
    pc,       \* pc[p]: where process p is ("idle" between calls)
    lhfile,   \* lhfile[p]: the local `file' of lock_head (object id or 0)
    disk,     \* disk.canon / disk.arch: inode at "<index>.log" / ".log.2"
    inodes,   \* inodes[i]: header and size of inode i (exists = created)
    flock,    \* flock[i]: process holding the whole-file lock of inode i
    last,     \* the last call that returned: [op, p, ret, arg]
    ioloop_time, \* the clock of the event loop (seconds)
    freed,    \* LogFile objects destroyed by the last step, each with the
              \* refcount and the number of pinning views it had when freed
    cache,    \* the ImapMessageCache of the session:
              \*   messages: the list of cached messages, by uid
              \*   messages_count, open_msg (uid or 0 for NULL)
              \*   pc: "ok", or "ub" once a call dereferenced NULL
    used,     \* how many reopen and clear calls the session has made
    ctx       \* the config_filter_context: parsers (NULL until add_all)
              \* and the array the last find_subset returned

vars == <<log, index, views, pc, lhfile, disk, inodes, flock, last,
          ioloop_time, freed, cache, used, ctx>>

\* ------------------------------------------------------------ LogFile
\* struct mail_transaction_log_file; fd == 0 stands for fd == -1
NullFile ==
    [alive |-> FALSE, fd |-> 0, st_ino |-> 0, file_seq |-> 0,
     prev_file_seq |-> 0, prev_file_offset |-> 0, create_stamp |-> 0,
     sync_offset |-> 0,
     mailbox_sync_max_offset |-> 0, mailbox_sync_saved_offset |-> 0,
     locked |-> FALSE, refcount |-> 0]

NoInode == [exists |-> FALSE, file_seq |-> 0, prev_file_seq |-> 0,
            prev_file_offset |-> 0, create_stamp |-> 0, size |-> 0]

Max(a, b) == IF a >= b THEN a ELSE b

\* MAIL_TRANSACTION_LOG_FILE_IN_MEMORY(file)
FILE_IN_MEMORY(f) == f.fd = 0

\* ---------------------------------------------------------------------
\* A context c is the part of the state one call of process p works on:
\*   c.log, c.views: log[p], views[p];  c.flock, c.disk, c.inodes: shared;
\*   c.now: ioloop_time;
\*   c.freed: objects destroyed so far in this call;
\*   c.file: the LogFile a callee allocated or found; c.ret: its result;
\*   c.undef: the call used a LogFile after it was freed, or read an
\*            unassigned pointer.
Ctx(p) ==
    [log |-> log[p], views |-> views[p], flock |-> flock, disk |-> disk,
     inodes |-> inodes, now |-> ioloop_time, freed |-> {}, file |-> 0,
     ret |-> 0, undef |-> FALSE]

Obj(c, o) == c.log.objs[o]
SetObj(c, o, f) == [c EXCEPT !.log.objs[o] = f]
WithRet(c, r) == [c EXCEPT !.ret = r]

FreeIds(c) == {o \in ObjIds : ~c.log.objs[o].alive}
CanAlloc(c) == FreeIds(c) # {}
NumInodes(c) == Cardinality({i \in Inos : c.inodes[i].exists})

\* mail_transaction_log_file_alloc(): a fresh object, refcount 0, fd -1
file_alloc(c) ==
    LET o == CHOOSE x \in FreeIds(c) : \A y \in FreeIds(c) : x <= y
    IN  [SetObj(c, o, [NullFile EXCEPT !.alive = TRUE]) EXCEPT !.file = o]

\* mail_transaction_log_file_unlock()
file_unlock(c, p, o) ==
    LET f == Obj(c, o) IN
    IF ~f.locked THEN c
    ELSE LET c1 == SetObj(c, o, [f EXCEPT !.locked = FALSE])
         IN  IF FILE_IN_MEMORY(f) THEN c1
             ELSE [c1 EXCEPT !.flock[f.fd] = 0]

\* remove object o from a list of object ids
RECURSIVE ListRemove(_, _)
ListRemove(s, o) ==
    IF s = <<>> THEN <<>>
    ELSE IF Head(s) = o THEN Tail(s)
    ELSE <<Head(s)>> \o ListRemove(Tail(s), o)

\* mail_transaction_log_file_free(): unlock, unlink from log->files,
\* clear log->head if it pointed here, close and release the object
file_free(c, p, o) ==
    LET f  == Obj(c, o)
        c1 == file_unlock(c, p, o)
    IN  [c1 EXCEPT
            !.log.files = ListRemove(@, o),
            !.log.head = IF @ = o THEN 0 ELSE @,
            !.log.open_file = IF @ = o THEN 0 ELSE @,
            !.log.objs[o] = NullFile,
            !.freed = @ \cup {[refcount |-> f.refcount,
                               pins |-> c.views[o]]}]

\* position of a new segment in log->files (newest first)
RECURSIVE ListInsert(_, _, _)
ListInsert(c, s, o) ==
    IF s = <<>> THEN <<o>>
    ELSE IF Obj(c, Head(s)).file_seq <= Obj(c, o).file_seq THEN <<o>> \o s
    ELSE <<Head(s)>> \o ListInsert(c, Tail(s), o)

\* a successfully opened or created LogFile joins log->files
file_add_to_list(c, o) ==
    [c EXCEPT !.log.files = ListInsert(c, @, o)]

\* load the header of inode i into object o (file_open / create "adopt")
file_load(c, o, i) ==
    LET n == c.inodes[i] IN
    file_add_to_list(
        SetObj(c, o, [Obj(c, o) EXCEPT
            !.fd = i, !.st_ino = i,
            !.file_seq = n.file_seq,
            !.prev_file_seq = n.prev_file_seq,
            !.prev_file_offset = n.prev_file_offset,
            !.create_stamp = n.create_stamp,
            !.sync_offset = HdrSize]), o)

\* mail_transaction_log_file_open(file, check_existing) on the inode i
\* found at the path (0 = ENOENT); err "io": a syscall fails, "corrupt":
\* the header read fails validation.  ret 1 = opened (and listed), 0 = not
\* found or corrupt (the file's stat signature is kept in the object),
\* -1 = I/O error.  check_existing is the second argument of the calls in
\* the source; no outcome of open(existing) depends on it.
file_open(c, o, i, check_existing, err) ==
    IF i = 0 THEN WithRet(c, 0)
    ELSE IF err = "io" THEN WithRet(c, -1)
    ELSE IF err = "corrupt"
    THEN [c EXCEPT !.log.objs[o].st_ino = i, !.ret = 0]
    ELSE WithRet(file_load(c, o, i), 1)

\* mail_transaction_log_init_hdr(): the header of a new segment continues
\* the current head
NewHdr(c) ==
    LET h == c.log.head IN
    IF h = 0
    THEN [exists |-> TRUE, file_seq |-> 1, prev_file_seq |-> 0,
          prev_file_offset |-> 0, create_stamp |-> c.now,
          size |-> HdrSize]
    ELSE [exists |-> TRUE, file_seq |-> Obj(c, h).file_seq + 1,
          prev_file_seq |-> Obj(c, h).file_seq,
          prev_file_offset |-> Obj(c, h).sync_offset,
          create_stamp |-> c.now, size |-> HdrSize]

\* mail_transaction_log_file_create(file), atomic under the ".newlock"
\* dotlock.  If the canonical path holds another inode than the one this
\* process remembered (file->st_ino), that file is adopted; otherwise a
\* new inode is written, the existing file renamed to ".2" and the new
\* one renamed into place.  err: the creation failed.
file_create(c, o, err) ==
    LET f   == Obj(c, o)
        cur == c.disk.canon
        new == NumInodes(c) + 1
    IN  IF err THEN WithRet(c, -1)
        ELSE IF cur # 0 /\ cur # f.st_ino
        THEN WithRet(file_load(c, o, cur), 0)
        ELSE LET c1 == [c EXCEPT
                           !.inodes[new] = NewHdr(c),
                           !.disk.arch = IF cur # 0 THEN cur ELSE @,
                           !.disk.canon = new]
             IN  WithRet(file_load(c1, o, new), 0)

\* mail_transaction_log_file_alloc_in_memory()
file_alloc_in_memory(c) ==
    LET c1 == file_alloc(c)
        o  == c1.file
        h  == NewHdr(c)
    IN  file_add_to_list(
            SetObj(c1, o, [Obj(c1, o) EXCEPT
                !.file_seq = h.file_seq,
                !.prev_file_seq = h.prev_file_seq,
                !.prev_file_offset = h.prev_file_offset,
                !.create_stamp = h.create_stamp,
                !.sync_offset = HdrSize]), o)


\* ---------------------------------------------------------------- Log
\* result of a call that cannot run because the model's object table or
\* sequence range is exhausted (the action is then not taken)
Blocked == 99

\* mail_transaction_log_set_head().  When `file' was already freed the
\* increment writes to released memory and log->head dangles.
set_head(c, o) ==
    IF Obj(c, o).alive
    THEN [c EXCEPT !.log.objs[o].refcount = @ + 1, !.log.head = o]
    ELSE [c EXCEPT !.log.head = o, !.undef = TRUE]

\* (variant: the sweep also frees files with one reference left)
RECURSIVE CleanList_upto_one(_, _, _)
CleanList_upto_one(c, p, s) ==
    IF s = <<>> THEN c
    ELSE IF Obj(c, Head(s)).refcount <= 1
    THEN CleanList_upto_one(file_free(c, p, Head(s)), p, Tail(s))
    ELSE CleanList_upto_one(c, p, Tail(s))

\* mail_transaction_logs_clean(): free every listed file with refcount 0
RECURSIVE CleanList(_, _, _)
CleanList(c, p, s) ==
    IF s = <<>> THEN c
    ELSE IF Obj(c, Head(s)).refcount = 0
    THEN CleanList(file_free(c, p, Head(s)), p, Tail(s))
    ELSE CleanList(c, p, Tail(s))

\* (variant: the sweep is skipped)
logs_clean_none(c, p) == c

logs_clean(c, p) == CleanList(c, p, c.log.files)

\* (variant: the Log's reference is not dropped)
unref_none(c, o) == c

\* --log->head->refcount
unref(c, o) == [c EXCEPT !.log.objs[o].refcount = @ - 1]

\* (variant: a replaced file is noticed but not adopted)
refresh_keep_head(c, p, err) ==
    LET h   == c.log.head
        cur == c.disk.canon
    IN  IF FILE_IN_MEMORY(Obj(c, h)) THEN WithRet(c, 0)
        ELSE IF err = "stat" \/ cur = 0 THEN WithRet(c, -1)
        ELSE WithRet(c, 0)

\* mail_transaction_log_refresh(); err "stat": stat() fails, "open": the
\* new file cannot be opened
refresh(c, p, err) ==
    LET h   == c.log.head
        cur == c.disk.canon
    IN  IF FILE_IN_MEMORY(Obj(c, h)) THEN WithRet(c, 0)
        ELSE IF err = "stat" \/ cur = 0 THEN WithRet(c, -1)
        ELSE IF Obj(c, h).st_ino = cur THEN WithRet(c, 0)
        ELSE IF ~CanAlloc(c) THEN WithRet(c, Blocked)
        ELSE LET c1 == file_alloc(c)
                 o  == c1.file
                 c2 == file_open(c1, o, cur, FALSE,
                                 IF err = "open" THEN "io" ELSE "none")
             IN  IF c2.ret <= 0 THEN WithRet(file_free(c2, p, o), -1)
                 ELSE LET c3 == unref(c2, h)
                          c4 == IF Obj(c3, h).refcount = 0
                                THEN logs_clean(c3, p) ELSE c3
                      IN  WithRet(set_head(c4, o), 0)

\* mail_transaction_log_rotate(); err: "fstat", "fstat_fault", "create"
\* or "none".  The fstat() error path reads file->filepath before file
\* is assigned: the read either goes unnoticed ("fstat") or faults
\* ("fstat_fault").
rotate(c, p, in_memory, err) ==
    LET h == c.log.head
        c2 == IF in_memory THEN WithRet(file_alloc_in_memory(c), 0)
              ELSE IF err = "fstat_fault"
              THEN [c EXCEPT !.ret = -1, !.undef = TRUE]
              ELSE IF err = "fstat" \/ FILE_IN_MEMORY(Obj(c, h))
              THEN WithRet(c, -1)
              ELSE LET c1 == file_alloc(c)
                       o  == c1.file
                       c1a == SetObj(c1, o, [Obj(c1, o) EXCEPT
                                  !.st_ino = Obj(c, h).fd])
                       c1b == file_create(c1a, o, err = "create")
                   IN  IF c1b.ret < 0 THEN WithRet(file_free(c1b, p, o), -1)
                       ELSE c1b
    IN  IF c2.ret < 0 THEN c2
        ELSE LET c3 == unref(c2, h)
                 c4 == IF Obj(c3, h).refcount = 0
                       THEN logs_clean(c3, p) ELSE file_unlock(c3, p, h)
             IN  WithRet(set_head(c4, c2.file), 0)

\* first listed file with the given file_seq (0 = none)
RECURSIVE ListFind(_, _, _)
ListFind(c, s, seq) ==
    IF s = <<>> THEN 0
    ELSE IF Obj(c, Head(s)).file_seq = seq THEN Head(s)
    ELSE ListFind(c, Tail(s), seq)

\* (variant: whatever the ".2" file holds is returned)
find_listed_any_seq(c, p, in_memory, seq, err) ==
    LET o == ListFind(c, c.log.files, seq) IN
    IF o # 0 THEN [c EXCEPT !.file = o, !.ret = 1]
    ELSE IF in_memory THEN [c EXCEPT !.file = 0, !.ret = 0]
    ELSE IF ~CanAlloc(c) THEN WithRet(c, Blocked)
    ELSE LET c1 == file_alloc(c)
             n  == c1.file
             c2 == file_open(c1, n, c1.disk.arch, TRUE,
                             IF err = "archive" THEN "io"
                             ELSE IF err = "corrupt" THEN "corrupt"
                             ELSE "none")
         IN  IF c2.ret <= 0
             THEN [c2 EXCEPT !.log.objs[n] = NullFile, !.file = 0]
             ELSE [c2 EXCEPT !.file = n, !.ret = 1]

\* mail_transaction_log_find_file(), from the files loop on;
\* err "archive": the ".2" file cannot be opened, "corrupt": its header
\* is damaged
find_listed(c, p, in_memory, seq, err) ==
    LET o == ListFind(c, c.log.files, seq) IN
    IF o # 0 THEN [c EXCEPT !.file = o, !.ret = 1]
    ELSE IF in_memory THEN [c EXCEPT !.file = 0, !.ret = 0]
    ELSE IF ~CanAlloc(c) THEN WithRet(c, Blocked)
    ELSE LET c1 == file_alloc(c)
             n  == c1.file
             c2 == file_open(c1, n, c1.disk.arch, TRUE,
                             IF err = "archive" THEN "io"
                             ELSE IF err = "corrupt" THEN "corrupt"
                             ELSE "none")
         IN  IF c2.ret <= 0
             \* returned without freeing: the object is lost to the Log
             THEN [c2 EXCEPT !.log.objs[n] = NullFile, !.file = 0]
             ELSE IF Obj(c2, n).file_seq # seq
             THEN [c2 EXCEPT !.file = 0, !.ret = 0]
             ELSE [c2 EXCEPT !.file = n, !.ret = 1]

\* (variant: refresh is tried also when the head is locked)
find_file_refresh_locked(c, p, in_memory, seq, err) ==
    LET h == c.log.head IN
    IF seq > Obj(c, h).file_seq
    THEN LET c1 == refresh(c, p, err) IN
         IF c1.ret = Blocked \/ c1.undef THEN c1
         ELSE IF c1.ret < 0 THEN [c1 EXCEPT !.file = 0, !.ret = -1]
         ELSE IF seq > Obj(c1, c1.log.head).file_seq
         THEN [c1 EXCEPT !.file = 0, !.ret = 0]
         ELSE find_listed(c1, p, in_memory, seq, err)
    ELSE find_listed(c, p, in_memory, seq, err)

\* mail_transaction_log_find_file()
find_file(c, p, in_memory, seq, err) ==
    LET h == c.log.head IN
    IF seq > Obj(c, h).file_seq
    THEN IF Obj(c, h).locked THEN [c EXCEPT !.file = 0, !.ret = 0]
         ELSE LET c1 == refresh(c, p, err) IN
              IF c1.ret = Blocked \/ c1.undef THEN c1
              ELSE IF c1.ret < 0 THEN [c1 EXCEPT !.file = 0, !.ret = -1]
              ELSE IF seq > Obj(c1, c1.log.head).file_seq
              THEN [c1 EXCEPT !.file = 0, !.ret = 0]
              ELSE find_listed(c1, p, in_memory, seq, err)
    ELSE find_listed(c, p, in_memory, seq, err)

\* ------------------------------------------------- ImapMessageCache
\* imap-message-cache.c. A CachedMessage is named by its uid; the list
\* cache->messages is the sequence of the uids, first entry first.
MAX_CACHED_MESSAGES == 16

Uids == 1..MaxUid

\* i_new() zeroes the structure
imap_msgcache_alloc ==
    [messages |-> <<>>, messages_count |-> 0, open_msg |-> 0, pc |-> "ok"]

\* position of uid in the list, 0 if it is not cached
RECURSIVE FindUid(_, _, _)
FindUid(msgs, uid, i) ==
    IF i > Len(msgs) THEN 0
    ELSE IF msgs[i] = uid THEN i
    ELSE FindUid(msgs, uid, i + 1)

RemoveAt(msgs, i) == SubSeq(msgs, 1, i - 1) \o SubSeq(msgs, i + 1, Len(msgs))

imap_msgcache_close(ca) == [ca EXCEPT !.open_msg = 0]

\* frees every entry of the list; messages_count is left as it is
imap_msgcache_clear(ca) ==
    [imap_msgcache_close(ca) EXCEPT !.messages = <<>>]

\* cache_new(): below the maximum the counter grows; otherwise the last
\* entry of the list is freed, and (*msgp)->next is read from a NULL
\* pointer when the list is empty
cache_new(ca, uid) ==
    IF ca.messages_count < MAX_CACHED_MESSAGES
    THEN [ca EXCEPT !.messages_count = @ + 1,
                    !.messages = <<uid>> \o @]
    ELSE IF ca.messages = <<>>
    THEN [ca EXCEPT !.pc = "ub"]
    ELSE [ca EXCEPT !.messages = <<uid>> \o RemoveAt(@, Len(@))]

cache_open_or_create(ca, uid) ==
    LET pos == FindUid(ca.messages, uid, 1)
    IN  IF pos = 0 THEN cache_new(ca, uid)
        ELSE IF pos # 1
        THEN [ca EXCEPT !.messages = <<uid>> \o RemoveAt(@, pos)]
        ELSE ca

\* imap_msgcache_open(): the entry becomes the open message (the fields
\* it caches do not touch the list)
imap_msgcache_open(ca, uid) ==
    LET c1 == cache_open_or_create(ca, uid)
    IN  IF c1.pc = "ub" THEN c1 ELSE [c1 EXCEPT !.open_msg = uid]

\* ------------------------------------------------------ config filter
\* config-filter.c. A filter keeps what the comparison reads: whether
\* local_name and service are set, and the two prefix lengths.
NULL == "NULL"

Filters ==
    [local_name : {NULL, "mail.example.org"}, local_bits : 0..MaxBits,
     remote_bits : 0..MaxBits, service : {NULL, "imap"}]

config_filter_init == [parsers |-> <<>>, added |-> FALSE, matches |-> <<>>]

config_filter_add_all(cx, parsers) ==
    [parsers |-> parsers, added |-> TRUE, matches |-> <<>>]

config_filter_parser_cmp(f1, f2) ==
    IF f1.local_name # NULL /\ f2.local_name = NULL THEN -1
    ELSE IF f1.local_name = NULL /\ f2.local_name # NULL THEN 1
    ELSE IF f1.local_bits > f2.local_bits THEN -1
    ELSE IF f1.local_bits < f2.local_bits THEN 1
    ELSE IF f1.remote_bits > f2.remote_bits THEN -1
    ELSE IF f1.remote_bits < f2.remote_bits THEN 1
    ELSE IF f1.service # NULL /\ f2.service = NULL THEN -1
    ELSE IF f1.service = NULL /\ f2.service # NULL THEN 1
    ELSE 0

config_filter_parser_cmp_rev(f1, f2) == - config_filter_parser_cmp(f1, f2)

\* the arrangements of the indices 1..n
Arrangements(n) ==
    {r \in [1..n -> 1..n] : \A i, j \in 1..n : r[i] = r[j] => i = j}

\* array_sort() is qsort(): the array comes back as some arrangement of
\* its elements in which no element compares greater than its successor
\* (the order of elements that compare equal is not defined); cmp is
\* the comparison callback, as a function of the two elements
array_sort(parsers, cmp) ==
    {r \in Arrangements(Len(parsers)) :
        \A i \in 1..Len(parsers) - 1 :
            cmp[parsers[r[i]], parsers[r[i + 1]]] <= 0}

\* (variant: sorted with the comparison itself, as find_all sorts)
config_filter_find_subset_cmp(cx) ==
    array_sort(cx.parsers,
               [f1, f2 \in Filters |-> config_filter_parser_cmp(f1, f2)])

\* config_filter_find_subset(): every parser of the context is pushed
\* and the array is sorted with the reversed comparison; the result
\* names the parsers by their index in ctx->parsers
config_filter_find_subset(cx) ==
    array_sort(cx.parsers,
               [f1, f2 \in Filters |-> config_filter_parser_cmp_rev(f1, f2)])

InitLog == [head |-> 0, open_file |-> 0, files |-> <<>>,
            objs |-> [o \in ObjIds |-> NullFile]]

NoCall == [op |-> "none", p |-> 0, ret |-> 0, arg |-> 0]
Call(op, p, ret) == [op |-> op, p |-> p, ret |-> ret, arg |-> 0]
CallArg(op, p, ret, arg) == [op |-> op, p |-> p, ret |-> ret, arg |-> arg]

\* commit a context as the next state of process p
Commit(c, p) ==
    /\ log' = [log EXCEPT ![p] = c.log]
    /\ views' = [views EXCEPT ![p] = c.views]
    /\ flock' = c.flock
    /\ disk' = c.disk
    /\ inodes' = c.inodes
    /\ ioloop_time' = c.now
    /\ UNCHANGED <<cache, used, ctx>>
    /\ freed' = c.freed

\* where the process continues: a call that used freed memory has no
\* defined continuation
After(c, p, where) ==
    pc' = [pc EXCEPT ![p] = IF c.undef THEN "ub" ELSE where]

Init ==
    /\ log = [p \in Procs |-> InitLog]
    /\ index \in {[p \in Procs |-> [log_locked |-> FALSE, in_memory |-> m[p]]] :
                    m \in {f \in [Procs -> BOOLEAN] : \A p \in Procs \ {1} : ~f[p]}}
    /\ views = [p \in Procs |-> [o \in ObjIds |-> 0]]
    /\ pc = [p \in Procs |-> "idle"]
    /\ lhfile = [p \in Procs |-> 0]
    /\ disk = [canon |-> 0, arch |-> 0]
    /\ inodes = [i \in Inos |-> NoInode]
    /\ flock = [i \in Inos |-> 0]
    /\ last = NoCall
    /\ ioloop_time = 0
    /\ cache = imap_msgcache_alloc
    /\ used = [reopen |-> 0, clear |-> 0]
    /\ ctx = config_filter_init
    /\ freed = {}

Idle(p) == pc[p] = "idle"
HasHead(p) == log[p].head # 0
HeadOf(p) == log[p].objs[log[p].head]
IN_MEMORY(p) == index[p].in_memory

\* number of views process p has open
NumViews(v) == LET RECURSIVE Sum(_)
                   Sum(S) == IF S = {} THEN 0
                             ELSE LET o == CHOOSE x \in S : TRUE
                                  IN  v[o] + Sum(S \ {o})
               IN  Sum(ObjIds)

\* ------------------------------------------------------------ actions
\* (variant: an earlier open_file is not released)
open_keep_scratch(c, p, in_memory, err) ==
    IF in_memory THEN WithRet(c, 0)
    ELSE IF ~CanAlloc(c) THEN WithRet(c, Blocked)
    ELSE LET c2 == file_alloc(c)
             c3 == file_open(c2, c2.file, c2.disk.canon, FALSE, err)
         IN  IF c3.ret <= 0
             THEN [c3 EXCEPT !.log.open_file = c2.file]
             ELSE WithRet(set_head(c3, c2.file), 1)

\* mail_transaction_log_open(); err: outcome of file_open() ("io": the
\* existing file cannot be opened, "corrupt": its header fails validation
\* and file_open() returns 0 with the file's signature in the object)
open(c, p, in_memory, err) ==
    LET c1 == IF c.log.open_file # 0
              THEN file_free(c, p, c.log.open_file) ELSE c
    IN  IF in_memory THEN WithRet(c1, 0)
        ELSE LET c2 == file_alloc(c1)
                 c3 == file_open(c2, c2.file, c2.disk.canon, FALSE, err)
             IN  IF c3.ret <= 0
                 \* leave the file for create()
                 THEN [c3 EXCEPT !.log.open_file = c2.file]
                 ELSE WithRet(set_head(c3, c2.file), 1)

\* last.arg: 1 when an open_file of an earlier open() was pending
Open(p) ==
    /\ Idle(p) /\ ~HasHead(p)
    /\ \E err \in {"none", "io", "corrupt"} :
         LET c == open(Ctx(p), p, IN_MEMORY(p), err) IN
         /\ c.ret # Blocked
         /\ Commit(c, p)
         /\ last' = CallArg("open", p, c.ret,
                            IF log[p].open_file # 0 THEN 1 ELSE 0)
    /\ UNCHANGED <<index, pc, lhfile>>

\* (variant: the path is stat()ed like in rotate instead of carrying
\* the signature of the file open() tried)
create_remember_stat(c, p, o) ==
    LET of == c.log.open_file
        c1 == SetObj(c, o, [Obj(c, o) EXCEPT !.st_ino = c.disk.canon])
    IN  IF of # 0 THEN file_free(c1, p, of) ELSE c1

\* mail_transaction_log_create(), lines 94-102: remember what file
\* open() tried, then release open_file
create_remember(c, p, o) ==
    LET of == c.log.open_file IN
    IF of # 0
    THEN file_free(SetObj(c, o, [Obj(c, o) EXCEPT
                                    !.st_ino = Obj(c, of).st_ino]), p, of)
    ELSE c

\* mail_transaction_log_create().  When file_create() fails the file is
\* freed, `file' becomes NULL and set_head(log, NULL) fails its assertion
\* (reported as ret -1; create itself never returns an error).
create(c, p, in_memory, err) ==
    IF in_memory
    THEN LET c1 == file_alloc_in_memory(c) IN
         WithRet(set_head(c1, c1.file), 0)
    ELSE LET c1 == file_alloc(c)
             o  == c1.file
             c2 == create_remember(c1, p, o)
             c3 == file_create(c2, o, err)
         IN  IF c3.ret < 0 THEN WithRet(file_free(c3, p, o), -1)
             ELSE WithRet(set_head(c3, o), 1)

Create(p) ==
    /\ Idle(p) /\ ~HasHead(p)
    /\ IN_MEMORY(p) \/ NumInodes(Ctx(p)) < MaxSeq
    /\ \E err \in BOOLEAN :
         LET c == create(Ctx(p), p, IN_MEMORY(p), err) IN
         /\ Commit(c, p)
         /\ pc' = [pc EXCEPT ![p] = IF c.ret < 0 THEN "aborted" ELSE @]
         /\ last' = Call("create", p, c.ret)
    /\ UNCHANGED <<index, lhfile>>

\* mail_transaction_log_views_close(): every view drops its pin
views_close(c) ==
    [c EXCEPT !.log.objs = [o \in ObjIds |->
                               [@[o] EXCEPT !.refcount = @ - c.views[o]]],
              !.views = [o \in ObjIds |-> 0]]

\* mail_transaction_log_close(); the final assertion is files == NULL
Close(p) ==
    /\ Idle(p)
    /\ LET c0 == views_close(Ctx(p))
           c1 == IF c0.log.open_file # 0
                 THEN file_free(c0, p, c0.log.open_file) ELSE c0
           c2 == IF c1.log.head # 0 THEN unref(c1, c1.log.head) ELSE c1
           c3 == logs_clean(c2, p)
       IN  /\ Commit(c3, p)
           /\ pc' = [pc EXCEPT ![p] =
                        IF c3.log.files = <<>> THEN "idle" ELSE "aborted"]
           /\ last' = CallArg("close", p, 0, Len(log[p].files))
    /\ UNCHANGED <<index, lhfile>>

\* mail_transaction_log_rotate(), precondition log->head->locked
Rotate(p) ==
    /\ Idle(p) /\ HasHead(p) /\ HeadOf(p).locked
    /\ HeadOf(p).file_seq < MaxSeq
    /\ NumInodes(Ctx(p)) < MaxSeq
    /\ CanAlloc(Ctx(p))
    /\ \E err \in {"none", "fstat", "fstat_fault", "create"} :
         LET c == rotate(Ctx(p), p, IN_MEMORY(p), err) IN
         /\ Commit(c, p)
         /\ After(c, p, "idle")
         /\ last' = Call("rotate", p, c.ret)
    /\ UNCHANGED <<index, lhfile>>

\* mail_transaction_log_find_file(), the result is not kept
FindFile(p, seq) ==
    /\ Idle(p) /\ HasHead(p)
    /\ \E err \in {"none", "stat", "open", "archive", "corrupt"} :
         LET c == find_file(Ctx(p), p, IN_MEMORY(p), seq, err) IN
         /\ c.ret # Blocked
         /\ Commit(c, p)
         /\ After(c, p, "idle")
         /\ last' = CallArg("find_file", p, c.ret, seq)
    /\ UNCHANGED <<index, lhfile>>

\* a reader opens a view on segment seq: find_file(), then pin the file
ViewOpen(p, seq) ==
    /\ Idle(p) /\ HasHead(p)
    /\ NumViews(views[p]) < MaxViews
    /\ \E err \in {"none", "stat", "open", "archive", "corrupt"} :
         LET c == find_file(Ctx(p), p, IN_MEMORY(p), seq, err)
             o == c.file
         IN  /\ c.ret # Blocked
             /\ Commit(IF c.ret = 1 /\ ~c.undef
                       THEN [c EXCEPT !.log.objs[o].refcount = @ + 1,
                                      !.views[o] = @ + 1]
                       ELSE c, p)
             /\ After(c, p, "idle")
             /\ last' = Call("view_open", p, c.ret)
    /\ UNCHANGED <<index, lhfile>>

\* a reader opens a view on the current head
PinHead(p) == HasHead(p) /\ ViewOpen(p, HeadOf(p).file_seq)

\* a view closes: unpin, and sweep unless the file is the head
ViewClose(p, o) ==
    /\ Idle(p) /\ views[p][o] > 0
    /\ LET c0 == Ctx(p)
           c1 == [c0 EXCEPT !.log.objs[o].refcount = @ - 1,
                            !.views[o] = @ - 1]
           c2 == IF c1.log.head # o THEN logs_clean(c1, p) ELSE c1
       IN  /\ Commit(c2, p)
           /\ last' = Call("view_close", p, 0)
    /\ UNCHANGED <<index, pc, lhfile>>

\* mail_transaction_log_sync_lock(): entry, precondition !log_locked
SyncLock(p) ==
    /\ Idle(p) /\ HasHead(p) /\ ~index[p].log_locked
    /\ pc' = [pc EXCEPT ![p] = "lh_lock"]
    /\ UNCHANGED <<log, index, views, lhfile, disk, inodes, flock, last,
                   ioloop_time, freed, cache, used, ctx>>

\* lock_head: file = log->head; mail_transaction_log_file_lock(file).
\* The lock is taken when no other process holds it; err is a timeout
\* or another failure, which ends lock_head and sync_lock with -1.
LHLock(p) ==
    /\ pc[p] = "lh_lock"
    /\ LET h == log[p].head
           f == log[p].objs[h]
       IN  \/ /\ IF FILE_IN_MEMORY(f) THEN TRUE ELSE flock[f.fd] = 0
              /\ log' = [log EXCEPT ![p].objs[h].locked = TRUE]
              /\ flock' = IF FILE_IN_MEMORY(f) THEN flock
                          ELSE [flock EXCEPT ![f.fd] = p]
              /\ lhfile' = [lhfile EXCEPT ![p] = h]
              /\ pc' = [pc EXCEPT ![p] = "lh_refresh"]
              /\ UNCHANGED last
           \/ /\ pc' = [pc EXCEPT ![p] = "idle"]
              /\ last' = Call("lock_head", p, -1)
              /\ UNCHANGED <<log, flock, lhfile>>
    /\ freed' = {}
    /\ UNCHANGED <<index, views, disk, inodes, ioloop_time,
                   cache, used, ctx>>

\* (variant: success is decided on the result of refresh alone)
lock_head_success_ret_only(c, file) == c.ret = 0

\* lock_head, line 369: ret == 0 && log->head == file
lock_head_success(c, file) == c.ret = 0 /\ c.log.head = file

\* lock_head, line 377: ret < 0 ends the loop
lock_head_giveup(c) == c.ret < 0

\* lock_head after file_lock(): pin file, refresh, unpin (sweeping when
\* the pin was the last reference), then succeed, fail or retry.
\* c.file is the local `file' afterwards, c.ret the result of refresh.
lock_head_refresh(c, p, file, err) ==
    LET c1 == [c EXCEPT !.log.objs[file].refcount = @ + 1]
        c2 == refresh(c1, p, err)
        c3 == unref(c2, file)
    IN  IF c2.ret = Blocked THEN c2
        ELSE IF Obj(c3, file).refcount = 0
        THEN [logs_clean(c3, p) EXCEPT !.file = 0]
        ELSE [c3 EXCEPT !.file = file]

LHRefresh(p) ==
    /\ pc[p] = "lh_refresh"
    /\ \E err \in {"none", "stat", "open"} :
       \E c \in {lock_head_refresh(Ctx(p), p, lhfile[p], err)} :
         /\ c.ret # Blocked
         /\ IF lock_head_success(c, c.file)
            THEN /\ Commit(c, p)
                 /\ pc' = [pc EXCEPT ![p] = "sl_map"]
                 /\ last' = Call("lock_head", p, 0)
            ELSE /\ Commit(IF c.file # 0 THEN file_unlock(c, p, c.file)
                           ELSE c, p)
                 /\ IF lock_head_giveup(c)
                    THEN /\ pc' = [pc EXCEPT ![p] = "idle"]
                         /\ last' = Call("lock_head", p, -1)
                    ELSE /\ pc' = [pc EXCEPT ![p] = "lh_lock"]
                         /\ last' = Call("lock_head_retry", p, 0)
    /\ lhfile' = [lhfile EXCEPT ![p] = 0]
    /\ UNCHANGED index

\* mail_transaction_log_file_map(file, sync_offset, (uoff_t)-1): bring
\* sync_offset up to the end of the file
file_map(c, o) ==
    LET f == Obj(c, o) IN
    IF FILE_IN_MEMORY(f) THEN c
    ELSE SetObj(c, o, [f EXCEPT !.sync_offset = c.inodes[f.fd].size])

\* mail_transaction_log_get_head(), and the outputs of sync_lock
get_head(f) == <<f.file_seq, f.sync_offset>>

\* (variant: a failed map leaves the head locked)
sync_lock_map_keep_lock(c, p, err) ==
    LET h == c.log.head IN
    IF err THEN WithRet(c, -1)
    ELSE WithRet(file_map(c, h), 0)

\* mail_transaction_log_sync_lock(), lines 394-399: update sync_offset;
\* err: file_map() fails and the head is unlocked again
sync_lock_map(c, p, err) ==
    LET h == c.log.head IN
    IF err THEN WithRet(file_unlock(c, p, h), -1)
    ELSE WithRet(file_map(c, h), 0)

\* sync_lock after lock_head succeeded: map, set log_locked, return
\* (last.arg: the outputs file_seq_r, file_offset_r)
SLMap(p) ==
    /\ pc[p] = "sl_map"
    /\ \E err \in BOOLEAN :
         LET c == sync_lock_map(Ctx(p), p, err) IN
         /\ Commit(c, p)
         /\ index' = [index EXCEPT ![p].log_locked = (c.ret = 0)]
         /\ last' = IF c.ret = 0
                     THEN CallArg("sync_lock", p, 0,
                                  get_head(Obj(c, c.log.head)))
                     ELSE Call("sync_lock", p, -1)
    /\ pc' = [pc EXCEPT ![p] = "idle"]
    /\ UNCHANGED lhfile

\* mail_transaction_log_sync_unlock(), precondition log_locked
SyncUnlock(p) ==
    /\ Idle(p) /\ HasHead(p) /\ index[p].log_locked
    /\ Commit(file_unlock(Ctx(p), p, log[p].head), p)
    /\ index' = [index EXCEPT ![p].log_locked = FALSE]
    /\ last' = Call("sync_unlock", p, 0)
    /\ UNCHANGED <<pc, lhfile>>

\* append one record to the locked head: the file grows by one byte and
\* sync_offset follows
AppendRecord(p) ==
    /\ Idle(p) /\ HasHead(p) /\ index[p].log_locked /\ HeadOf(p).locked
    /\ HeadOf(p).sync_offset < MaxOff
    /\ LET h == log[p].head
           f == HeadOf(p)
       IN  /\ log' = [log EXCEPT ![p].objs[h].sync_offset = @ + 1]
           /\ inodes' = IF FILE_IN_MEMORY(f) THEN inodes
                        ELSE [inodes EXCEPT ![f.fd].size = f.sync_offset + 1]
    /\ last' = Call("append", p, 0)
    /\ freed' = {}
    /\ UNCHANGED <<index, views, pc, lhfile, disk, flock, ioloop_time,
                   cache, used, ctx>>

\* (variant: the watermark is overwritten)
set_mailbox_sync_pos_assign(f, file_offset) ==
    [f EXCEPT !.mailbox_sync_max_offset = file_offset]

\* mail_transaction_log_set_mailbox_sync_pos(), lines 293-294
set_mailbox_sync_pos(f, file_offset) ==
    IF file_offset >= f.mailbox_sync_max_offset
    THEN [f EXCEPT !.mailbox_sync_max_offset = file_offset]
    ELSE f

\* mail_transaction_log_get_mailbox_sync_pos()
get_mailbox_sync_pos(f) == <<f.file_seq, f.mailbox_sync_max_offset>>

\* mail_transaction_log_is_head_prev()
is_head_prev(f, file_seq, file_offset) ==
    f.prev_file_seq = file_seq /\ f.prev_file_offset = file_offset

\* mail_transaction_log_set_mailbox_sync_pos(), preconditions asserted
SetMailboxSyncPos(p, file_seq, file_offset) ==
    /\ Idle(p) /\ HasHead(p)
    /\ file_seq = HeadOf(p).file_seq
    /\ file_offset >= HeadOf(p).mailbox_sync_saved_offset
    /\ log' = [log EXCEPT ![p].objs[log[p].head] =
                  set_mailbox_sync_pos(@, file_offset)]
    /\ last' = CallArg("set_mailbox_sync_pos", p, 0, file_offset)
    /\ freed' = {}
    /\ UNCHANGED <<index, views, pc, lhfile, disk, inodes, flock,
                   ioloop_time,
                   cache, used, ctx>>

\* (variant: the descriptor is closed but file->fd is left as it was)
move_to_memory_keep_fd(c, p, err) ==
    LET h == c.log.head IN
    IF h = 0 THEN WithRet(c, 0)
    ELSE IF FILE_IN_MEMORY(Obj(c, h)) THEN WithRet(c, 0)
    ELSE IF err THEN WithRet(c, -1)
    ELSE LET f == Obj(c, h) IN
         [c EXCEPT !.log.objs[h].sync_offset = c.inodes[f.fd].size,
                   !.flock[f.fd] = IF @ = p THEN 0 ELSE @,
                   !.ret = 0]

\* mail_transaction_log_move_to_memory(): only log->head is converted.
\* file_read(file, 0) loads the file up to its end (err: it fails, after
\* the buffer and the mapping were dropped); close(fd) also gives up
\* the advisory lock the descriptor held.
move_to_memory(c, p, err) ==
    LET h == c.log.head IN
    IF h = 0 THEN WithRet(c, 0)
    ELSE IF FILE_IN_MEMORY(Obj(c, h)) THEN WithRet(c, 0)
    ELSE IF err THEN WithRet(c, -1)
    ELSE LET f == Obj(c, h) IN
         [c EXCEPT !.log.objs[h].sync_offset = c.inodes[f.fd].size,
                   !.log.objs[h].fd = 0,
                   !.flock[f.fd] = IF @ = p THEN 0 ELSE @,
                   !.ret = 0]

MoveToMemory(p) ==
    /\ Idle(p)
    /\ \E err \in BOOLEAN :
         LET c == move_to_memory(Ctx(p), p, err) IN
         /\ Commit(c, p)
         /\ last' = Call("move_to_memory", p, c.ret)
    /\ UNCHANGED <<index, pc, lhfile>>

\* (variant: the age alone decides, whatever the size)
LOG_WANT_ROTATE_any_size(f, now) ==
    \/ f.create_stamp < now - MAIL_TRANSACTION_LOG_ROTATE_TIME
    \/ f.sync_offset > MAIL_TRANSACTION_LOG_ROTATE_MAX_SIZE

\* LOG_WANT_ROTATE(file), with ioloop_time as `now'
LOG_WANT_ROTATE(f, now) ==
    \/ /\ f.sync_offset > MAIL_TRANSACTION_LOG_ROTATE_MIN_SIZE
       /\ f.create_stamp < now - MAIL_TRANSACTION_LOG_ROTATE_TIME
    \/ f.sync_offset > MAIL_TRANSACTION_LOG_ROTATE_MAX_SIZE

\* mail_transaction_log_want_rotate()
want_rotate(c) == LOG_WANT_ROTATE(Obj(c, c.log.head), c.now)

\* last.ret: 1 for true, 0 for false
WantRotate(p) ==
    /\ Idle(p) /\ HasHead(p)
    /\ last' = Call("want_rotate", p, IF want_rotate(Ctx(p)) THEN 1 ELSE 0)
    /\ freed' = {}
    /\ UNCHANGED <<log, index, views, pc, lhfile, disk, inodes, flock,
                   ioloop_time,
                   cache, used, ctx>>

\* the event loop's clock advances by one second
Tick ==
    /\ ioloop_time < MaxTime
    /\ ioloop_time' = ioloop_time + 1
    /\ UNCHANGED <<log, index, views, pc, lhfile, disk, inodes, flock,
                   last, freed, cache, used, ctx>>

\* --------------------------------------------------------------- peers
\* What the other processes that share the directory do to it, seen from
\* the disk: each is a complete call sequence of the same code (create;
\* sync_lock, append, sync_unlock; sync_lock, rotate, sync_unlock), which
\* needs the whole-file lock of the canonical file to be free.
PeerEffect ==
    /\ last' = Call("peer", 0, 0)
    /\ freed' = {}
    /\ UNCHANGED <<log, index, views, pc, lhfile, flock, ioloop_time,
                   cache, used, ctx>>

PeerCreate ==
    /\ disk.canon = 0
    /\ inodes' = [inodes EXCEPT ![1] =
                     [exists |-> TRUE, file_seq |-> 1, prev_file_seq |-> 0,
                      prev_file_offset |-> 0, create_stamp |-> ioloop_time,
                      size |-> HdrSize]]
    /\ disk' = [disk EXCEPT !.canon = 1]
    /\ PeerEffect

PeerRotate ==
    /\ disk.canon # 0 /\ flock[disk.canon] = 0
    /\ inodes[disk.canon].file_seq < MaxSeq
    /\ LET old == inodes[disk.canon]
           new == NumInodes([inodes |-> inodes]) + 1
       IN  /\ new <= MaxSeq
           /\ inodes' = [inodes EXCEPT ![new] =
                 [exists |-> TRUE, file_seq |-> old.file_seq + 1,
                  prev_file_seq |-> old.file_seq,
                  prev_file_offset |-> old.size,
                  create_stamp |-> ioloop_time, size |-> HdrSize]]
           /\ disk' = [canon |-> new, arch |-> disk.canon]
    /\ PeerEffect

\* the inodes some process still has open or remembers
HeldInos ==
    {i \in Inos : \E p \in Procs, o \in ObjIds :
        /\ log[p].objs[o].alive \/ o = log[p].open_file
        /\ log[p].objs[o].fd = i \/ log[p].objs[o].st_ino = i}

\* A peer without a head finds the header of the canonical file damaged
\* (open() returns 0) and calls create(): under the ".newlock" dotlock
\* alone it writes a new file, renames the existing one to ".2" and the
\* new one into place.  The new file gets the next inode never used, or
\* the number of an unlinked inode that no process has open.
PeerRecreate ==
    /\ disk.canon # 0
    /\ \E new \in Inos :
         /\ IF inodes[new].exists
            THEN /\ new \notin {disk.canon, disk.arch}
                 /\ new \notin HeldInos /\ flock[new] = 0
            ELSE new = NumInodes([inodes |-> inodes]) + 1
         /\ inodes' = [inodes EXCEPT ![new] =
                 [exists |-> TRUE, file_seq |-> 1, prev_file_seq |-> 0,
                  prev_file_offset |-> 0, create_stamp |-> ioloop_time,
                  size |-> HdrSize]]
         /\ disk' = [canon |-> new, arch |-> disk.canon]
    /\ PeerEffect

\* a peer appends one record to the canonical file (sync_lock, append,
\* sync_unlock)
PeerAppend ==
    /\ disk.canon # 0 /\ flock[disk.canon] = 0
    /\ inodes[disk.canon].size <= MaxOff
    /\ inodes' = [inodes EXCEPT ![disk.canon].size = @ + 1]
    /\ UNCHANGED disk
    /\ PeerEffect

\* ------------------------------------------------------ specifications
\* One process with every operation of its Log, and its peers.
Self == CHOOSE p \in Procs : \A q \in Procs : p <= q

Next ==
    \/ Open(Self)
    \/ Create(Self)
    \/ Close(Self)
    \/ Rotate(Self)
    \/ \E seq \in 1..MaxSeq : FindFile(Self, seq)
    \/ \E seq \in 1..MaxSeq : ViewOpen(Self, seq)
    \/ \E o \in ObjIds : ViewClose(Self, o)
    \/ SyncLock(Self)
    \/ LHLock(Self)
    \/ LHRefresh(Self)
    \/ SLMap(Self)
    \/ SyncUnlock(Self)
    \/ AppendRecord(Self)
    \/ PeerCreate
    \/ PeerRotate

Spec == Init /\ [][Next]_vars

\* Two processes contending for the head lock of one log on disk.
InitLock ==
    /\ Init
    /\ \A p \in Procs : ~index[p].in_memory

NextLock ==
    \E p \in Procs :
        \/ Open(p)
        \/ Create(p)
        \/ PinHead(p)
        \/ \E o \in ObjIds : ViewClose(p, o)
        \/ SyncLock(p)
        \/ LHLock(p)
        \/ LHRefresh(p)
        \/ SLMap(p)
        \/ Rotate(p)
        \/ SyncUnlock(p)

SpecLock == InitLock /\ [][NextLock]_vars

\* One process under the scheduling the operating system gives it (a
\* process inside lock_head keeps running), next to peers that create,
\* rotate and recreate the log.
NextLive ==
    \/ Open(Self)
    \/ Create(Self)
    \/ PinHead(Self)
    \/ SyncLock(Self)
    \/ LHLock(Self)
    \/ LHRefresh(Self)
    \/ SLMap(Self)
    \/ Rotate(Self)
    \/ SyncUnlock(Self)
    \/ PeerCreate
    \/ PeerRotate
    \/ PeerRecreate

LiveLock ==
    /\ InitLock /\ [][NextLive]_vars
    /\ WF_vars(LHLock(Self)) /\ WF_vars(LHRefresh(Self))

\* One process that also moves the mailbox sync watermark of its head.
NextPos ==
    \/ Open(Self)
    \/ Create(Self)
    \/ PinHead(Self)
    \/ \E o \in ObjIds : ViewClose(Self, o)
    \/ SyncLock(Self)
    \/ LHLock(Self)
    \/ LHRefresh(Self)
    \/ SLMap(Self)
    \/ SyncUnlock(Self)
    \/ AppendRecord(Self)
    \/ Rotate(Self)
    \/ \E seq \in 1..MaxSeq, off \in 0..MaxOff + 1 :
           SetMailboxSyncPos(Self, seq, off)
    \/ PeerCreate
    \/ PeerRotate

SpecPos == Init /\ [][NextPos]_vars

\* One process whose storage stops being durable: the Log is moved to
\* memory at any point between its other calls.
NextMem ==
    \/ Open(Self)
    \/ Create(Self)
    \/ \E seq \in 1..MaxSeq : FindFile(Self, seq)
    \/ \E seq \in 1..MaxSeq : ViewOpen(Self, seq)
    \/ \E o \in ObjIds : ViewClose(Self, o)
    \/ SyncLock(Self)
    \/ LHLock(Self)
    \/ LHRefresh(Self)
    \/ SLMap(Self)
    \/ SyncUnlock(Self)
    \/ AppendRecord(Self)
    \/ MoveToMemory(Self)
    \/ PeerCreate
    \/ PeerRotate

SpecMem == Init /\ [][NextMem]_vars

\* One process asking whether its head should be rotated, while the
\* clock advances and the head grows.
NextWant ==
    \/ Open(Self)
    \/ Create(Self)
    \/ SyncLock(Self)
    \/ LHLock(Self)
    \/ LHRefresh(Self)
    \/ SLMap(Self)
    \/ SyncUnlock(Self)
    \/ AppendRecord(Self)
    \/ PinHead(Self)
    \/ Rotate(Self)
    \/ WantRotate(Self)
    \/ Tick
    \/ PeerAppend

SpecWant == Init /\ [][NextWant]_vars

\* ------------------------------------------------ the message cache
\* what the calls of the cache and of the filter leave alone
logstate == <<log, index, views, pc, lhfile, disk, inodes, flock,
              ioloop_time, freed>>

IsCached(uid) == FindUid(cache.messages, uid, 1) # 0

\* the uids a session asks for: one that is cached, or the lowest one
\* that is not
NewUid(uid) ==
    /\ ~IsCached(uid)
    /\ \A u \in Uids : u < uid => IsCached(u)

ImapOpen(uid) ==
    /\ cache.pc = "ok"
    /\ \/ NewUid(uid) /\ UNCHANGED used
       \/ /\ IsCached(uid)
          /\ used.reopen < MaxReopen
          /\ used' = [used EXCEPT !.reopen = @ + 1]
    /\ cache' = imap_msgcache_open(cache, uid)
    /\ last' = CallArg("imap_msgcache_open", 0, 0, uid)
    /\ UNCHANGED <<logstate, ctx>>

ImapClose ==
    /\ cache.pc = "ok"
    /\ cache' = imap_msgcache_close(cache)
    /\ last' = Call("imap_msgcache_close", 0, 0)
    /\ UNCHANGED <<logstate, used, ctx>>

ImapClear ==
    /\ cache.pc = "ok"
    /\ used.clear < MaxClear
    /\ used' = [used EXCEPT !.clear = @ + 1]
    /\ cache' = imap_msgcache_clear(cache)
    /\ last' = Call("imap_msgcache_clear", 0, 0)
    /\ UNCHANGED <<logstate, ctx>>

\* One IMAP session using its message cache.
NextCache ==
    \/ \E uid \in Uids : ImapOpen(uid)
    \/ ImapClose
    \/ ImapClear

SpecCache == InitLock /\ [][NextCache]_vars

\* ------------------------------------------------- the config filter
\* a context is given its parsers once, after config_filter_init
ConfigFilterAddAll(parsers) ==
    /\ ~ctx.added
    /\ ctx' = config_filter_add_all(ctx, parsers)
    /\ last' = Call("config_filter_add_all", 0, 0)
    /\ UNCHANGED <<logstate, cache, used>>

\* find_subset walks ctx->parsers, which add_all has set
ConfigFilterFindSubset ==
    /\ ctx.added
    /\ \E r \in config_filter_find_subset(ctx) :
           ctx' = [ctx EXCEPT !.matches = r]
    /\ last' = Call("config_filter_find_subset", 0, 0)
    /\ UNCHANGED <<logstate, cache, used>>

\* A configuration is loaded and the sorted parsers are asked for.
NextFilter ==
    \/ \E n \in 0..MaxParsers :
           \E parsers \in [1..n -> Filters] : ConfigFilterAddAll(parsers)
    \/ ConfigFilterFindSubset

SpecFilter == InitLock /\ [][NextFilter]_vars

\* ------------------------------------------------------------- claims
\* a process whose last call used freed memory or failed an assertion
\* has stopped running this code
Running(p) == pc[p] \notin {"ub", "aborted"}
HeadValid(p) == HasHead(p) /\ HeadOf(p).alive
\* the process is between a successful sync_lock and its sync_unlock
InSync(p) == Running(p) /\ index[p].log_locked
\* the files of process p's Log that are not its head
OlderFiles(p) == {log[p].files[k] : k \in 1..Len(log[p].files)} \ {log[p].head}

\* C1: at most one process at a time is between a successful sync_lock
\* and its sync_unlock, also when the lock holder rotates the log.
C1_OneWriter ==
    \A p \in Procs, q \in Procs : p # q => ~(InSync(p) /\ InSync(q))

\* C2: when lock_head returns 0 the head is locked by the caller, a
\* head on disk is the file at the canonical path, and the caller holds
\* no lock on any other (superseded) file.
C2_LockHeadSuccess ==
    \A p \in Procs :
        (pc[p] = "sl_map" /\ last = Call("lock_head", p, 0)) =>
            /\ HeadValid(p) /\ HeadOf(p).locked
            /\ ~FILE_IN_MEMORY(HeadOf(p)) =>
                   /\ flock[HeadOf(p).fd] = p
                   /\ HeadOf(p).st_ino = disk.canon
            /\ \A o \in ObjIds : o # log[p].head => ~log[p].objs[o].locked
            /\ \A i \in Inos : flock[i] = p => i = HeadOf(p).fd

\* lock_head returned 0 for process 2 after a retry: its head is the
\* second segment, which another process created, and the superseded
\* first segment is still held (pinned) but unlocked
C2_Witness ==
    /\ pc[2] = "sl_map" /\ last = Call("lock_head", 2, 0)
    /\ HeadOf(2).file_seq = 2
    /\ \E o \in OlderFiles(2) : log[2].objs[o].file_seq = 1

\* C3: every call of lock_head eventually returns.
C3_LockHeadTerminates ==
    \A p \in Procs :
        (pc[p] \in {"lh_lock", "lh_refresh"}) ~>
            (pc[p] \notin {"lh_lock", "lh_refresh"})

\* C4 as claimed: a refresh called while the head is locked never changes
\* which LogFile is the head (the call inside lock_head included).
C4_RefreshNoOpWhileLocked ==
    [][\A p \in Procs :
          (pc[p] = "lh_refresh" /\ pc'[p] # "lh_refresh"
              /\ HeadOf(p).locked /\ \A q \in Procs : Running(q))
          => log'[p].head = log[p].head]_vars

\* C4 amended: the refresh inside lock_head may replace a superseded
\* head, so that the head lock_head returns with is the file at the
\* canonical path.  Outside that lock-then-refresh window a locked head
\* that is the file at the canonical path is left alone by refresh, and
\* it stays the file at the canonical path unless its owner rotates or
\* another process replaces the file through create() (after an open
\* that did not succeed); no rotate of another process replaces it.
C4_LockedHeadIsCurrent ==
    [][\A p \in Procs :
        /\ (pc[p] = "lh_refresh" /\ pc'[p] = "sl_map"
               /\ ~FILE_IN_MEMORY(log'[p].objs[log'[p].head]))
           => /\ log'[p].objs[log'[p].head].locked
              /\ log'[p].objs[log'[p].head].st_ino = disk'.canon
        /\
          (Running(p) /\ pc[p] # "lh_refresh" /\ HeadValid(p)
              /\ HeadOf(p).locked /\ ~FILE_IN_MEMORY(HeadOf(p))
              /\ HeadOf(p).st_ino = disk.canon)
          => /\ refresh(Ctx(p), p, "none").log.head = log[p].head
             /\ disk'.canon # disk.canon =>
                    \/ last'.op = "rotate" /\ last'.p = p
                    \/ last'.op = "create" /\ last'.p # p]_vars

\* process 1 holds the sync lock on a head that it reached through a
\* refresh inside lock_head (created by process 2), and is idle
C4_Witness ==
    /\ pc[1] = "idle" /\ index[1].log_locked /\ HeadValid(1)
    /\ HeadOf(1).locked /\ HeadOf(1).file_seq = 2
    /\ HeadValid(2) /\ HeadOf(2).file_seq = 2 /\ HeadOf(2).prev_file_seq = 1
    /\ \E o \in OlderFiles(2) : log[2].objs[o].file_seq = 1

\* C5: after a successful rotate the new head continues the old one:
\* file_seq is the old file_seq + 1 and (prev_file_seq, prev_file_offset)
\* is the old head's (file_seq, sync_offset), so is_head_prev() holds.
C5_RotateLinksHead ==
    [][(last'.op = "rotate" /\ last'.ret = 0)
        => LET old == HeadOf(Self)
               new == log'[Self].objs[log'[Self].head]
           IN  /\ new.alive
               /\ new.file_seq = old.file_seq + 1
               /\ new.prev_file_seq = old.file_seq
               /\ new.prev_file_offset = old.sync_offset
               /\ is_head_prev(new, old.file_seq, old.sync_offset)]_vars

\* C6: every file in log->files other than the head has a file_seq
\* below the head's.
C6_OlderFilesBelowHead ==
    (Running(Self) /\ HeadValid(Self)) =>
        \A o \in OlderFiles(Self) :
            log[Self].objs[o].file_seq < HeadOf(Self).file_seq

\* the LogFile objects reachable from the Log
Reachable(p) ==
    ({log[p].head, log[p].open_file}
        \cup {log[p].files[k] : k \in 1..Len(log[p].files)}) \ {0}

\* C7: no two distinct LogFile objects reachable from the Log have the
\* same file_seq.
C7_UniqueFileSeq ==
    Running(Self) =>
        \A o1 \in Reachable(Self), o2 \in Reachable(Self) :
            o1 # o2 =>
                log[Self].objs[o1].file_seq # log[Self].objs[o2].file_seq

\* C8: the head's mailbox sync offsets are ordered:
\* saved <= max <= sync_offset.
C8_SyncPosOrdered ==
    (Running(Self) /\ HeadValid(Self)) =>
        /\ HeadOf(Self).mailbox_sync_saved_offset
              <= HeadOf(Self).mailbox_sync_max_offset
        /\ HeadOf(Self).mailbox_sync_max_offset <= HeadOf(Self).sync_offset

\* C9: set_mailbox_sync_pos never lowers the watermark; after a call it
\* is the larger of the previous watermark and the offset given, and
\* get_mailbox_sync_pos returns it.
C9_WatermarkMonotonic ==
    [][(last'.op = "set_mailbox_sync_pos")
        => LET old == HeadOf(Self)
               new == log'[Self].objs[log'[Self].head]
           IN  /\ log'[Self].head = log[Self].head
               /\ new.mailbox_sync_max_offset
                     = Max(old.mailbox_sync_max_offset, last'.arg)
               /\ new.mailbox_sync_max_offset >= old.mailbox_sync_max_offset
               /\ get_mailbox_sync_pos(new)
                     = <<old.file_seq,
                         Max(old.mailbox_sync_max_offset, last'.arg)>>]_vars

\* set_mailbox_sync_pos was just called with an offset below the
\* watermark an earlier call had set, and the watermark stayed
C9_Witness ==
    /\ last.op = "set_mailbox_sync_pos" /\ HeadValid(Self)
    /\ last.arg < HeadOf(Self).mailbox_sync_max_offset

\* C10: a LogFile is destroyed only with refcount 0 and no view pinning
\* it, and a file pinned by a view stays allocated.
C10_FreedOnlyUnreferenced ==
    /\ \A r \in freed : r.refcount = 0 /\ r.pins = 0
    /\ \A p \in Procs, o \in ObjIds :
           views[p][o] > 0 =>
               /\ log[p].objs[o].alive
               /\ log[p].objs[o].refcount >= views[p][o]

\* a superseded segment was just freed by the sweep while an older
\* segment, pinned by a reader, survived two head changes
C10_Witness ==
    /\ freed # {} /\ Running(Self) /\ HeadValid(Self)
    /\ \E o \in OlderFiles(Self) :
           /\ views[Self][o] > 0
           /\ log[Self].objs[o].file_seq + 2 <= HeadOf(Self).file_seq

\* C11: after close() the Log is in NoHead: every view is closed,
\* open_file is absent, no head is reachable, log->files is empty (the
\* closing assertion holds) and no LogFile of the Log is left.
C11_CloseLeavesNoHead ==
    (last.op = "close" /\ last.p = Self) =>
        /\ pc[Self] = "idle"
        /\ log[Self].head = 0 /\ log[Self].open_file = 0
        /\ log[Self].files = <<>>
        /\ NumViews(views[Self]) = 0
        /\ \A o \in ObjIds : ~log[Self].objs[o].alive

\* close() ran on a Log that held its head and an older segment
C11_Witness ==
    /\ last.op = "close" /\ last.p = Self /\ last.arg >= 2
    /\ freed # {} /\ disk.arch # 0

\* C12: every create from NoHead or HasOpen leaves the Log in HasHead:
\* head is a valid LogFile that carries the Log's reference and
\* open_file is absent, whatever file creation did.
C12_CreateInstallsHead ==
    (last.op = "create" /\ last.p = Self) =>
        /\ HasHead(Self) /\ HeadOf(Self).alive
        /\ HeadOf(Self).refcount >= 1
        /\ log[Self].open_file = 0

\* C13: open() has exactly three outcomes: in-memory index: returns 0,
\* no head, no open_file; canonical file absent: returns 0, no head,
\* exactly one LogFile kept in open_file; file opened: returns 1, the
\* file is head and open_file is absent.
C13_OpenThreeOutcomes ==
    (last.op = "open" /\ last.p = Self) =>
        LET l == log[Self]
            alive == {o \in ObjIds : l.objs[o].alive}
        IN  \/ /\ IN_MEMORY(Self) /\ last.ret = 0
               /\ l.head = 0 /\ l.open_file = 0
            \/ /\ ~IN_MEMORY(Self) /\ disk.canon = 0 /\ last.ret = 0
               /\ l.head = 0 /\ l.open_file # 0
               /\ alive = {l.open_file}
            \/ /\ ~IN_MEMORY(Self) /\ disk.canon # 0 /\ last.ret = 1
               /\ l.head # 0 /\ l.objs[l.head].fd = disk.canon
               /\ l.objs[l.head].refcount = 1
               /\ l.open_file = 0

\* C13 (amended): open() has a fourth outcome: when the canonical file
\* exists but cannot be opened it returns file_open()'s error, installs
\* no head and keeps exactly one LogFile in open_file.
C13_OpenFourOutcomes ==
    (last.op = "open" /\ last.p = Self) =>
        LET l == log[Self]
            alive == {o \in ObjIds : l.objs[o].alive}
        IN  \/ /\ IN_MEMORY(Self) /\ last.ret = 0
               /\ l.head = 0 /\ l.open_file = 0
            \/ /\ ~IN_MEMORY(Self) /\ disk.canon = 0 /\ last.ret = 0
               /\ l.head = 0 /\ l.open_file # 0
               /\ alive = {l.open_file}
            \/ /\ ~IN_MEMORY(Self) /\ disk.canon # 0 /\ last.ret <= 0
               /\ l.head = 0 /\ l.open_file # 0
               /\ alive = {l.open_file}
            \/ /\ ~IN_MEMORY(Self) /\ disk.canon # 0 /\ last.ret = 1
               /\ l.head # 0 /\ l.objs[l.head].fd = disk.canon
               /\ l.objs[l.head].refcount = 1
               /\ l.open_file = 0

\* open() failed on an existing file while the open_file of an earlier
\* open() was still pending
C13_Witness ==
    /\ last.op = "open" /\ last.p = Self
    /\ last.ret = -1 /\ last.arg = 1
    /\ log[Self].open_file # 0

\* the files on disk (canonical, archive or unlinked but still open)
Files == {i \in Inos : inodes[i].exists}

\* C14: when create() is called after an open that did not succeed and
\* the canonical path holds another file than the one that open saw
\* (none, when it saw none), the file on disk is adopted as head: nothing
\* on disk is written or renamed, every process that has the canonical
\* file as head refers to the same on-disk file as the creator, and the
\* create adds no second file with a file_seq that is on disk already.
C14_CreateAdoptsWinner ==
    [][\A p \in Procs :
          (/\ last'.op = "create" /\ last'.ret = 1 /\ last'.p = p
           /\ Idle(p) /\ ~HasHead(p) /\ ~IN_MEMORY(p)
           /\ disk.canon # 0
           /\ log[p].open_file # 0
           /\ log[p].objs[log[p].open_file].st_ino # disk.canon)
          => LET new == log'[p].objs[log'[p].head]
             IN  /\ new.alive /\ new.fd = disk.canon
                 /\ disk' = disk /\ inodes' = inodes
                 /\ \A q \in Procs :
                       (pc'[q] \notin {"ub", "aborted"}
                          /\ log'[q].head # 0
                          /\ log'[q].objs[log'[q].head].st_ino = disk.canon)
                       => /\ log'[q].objs[log'[q].head].fd = new.fd
                          /\ log'[q].objs[log'[q].head].file_seq
                                = new.file_seq]_vars

\* a process whose open found no file has just created its head by
\* adopting the file another process created in between and still has
\* as head
C14_Witness ==
    /\ last.op = "create" /\ last.ret = 1
    /\ \E q \in Procs \ {last.p} :
          /\ Running(q) /\ HeadValid(q)
          /\ HeadOf(q).fd = disk.canon
          /\ HeadOf(q).fd = HeadOf(last.p).fd
          /\ HeadOf(q).file_seq = 1
    /\ Cardinality(Files) = 1

\* C15: after move_to_memory returned 0 every LogFile held by the Log
\* (the head and every older file of the chain) is an in-memory file
\* with the identity, file_seq and contents it had on disk.
C15_AllFilesInMemory ==
    [][(last'.op = "move_to_memory" /\ last'.ret = 0)
        => /\ log'[Self].head = log[Self].head
           /\ log'[Self].files = log[Self].files
           /\ \A o \in Reachable(Self) :
                 LET old == log[Self].objs[o]
                     new == log'[Self].objs[o]
                 IN  /\ new.alive /\ FILE_IN_MEMORY(new)
                     /\ new.file_seq = old.file_seq]_vars

\* C15 (amended): after move_to_memory returned 0 the head is an
\* in-memory file with the identity, file_seq and header it had, holding
\* the on-disk file up to its end; the older files of the chain are
\* left as they were.
C15_HeadInMemory ==
    [][(last'.op = "move_to_memory" /\ last'.ret = 0)
        => /\ log'[Self].head = log[Self].head
           /\ log'[Self].files = log[Self].files
           /\ \A o \in ObjIds \ {log[Self].head} :
                 log'[Self].objs[o] = log[Self].objs[o]
           /\ HasHead(Self) =>
                 LET old == HeadOf(Self)
                     new == log'[Self].objs[log[Self].head]
                 IN  /\ new.alive /\ FILE_IN_MEMORY(new)
                     /\ new.file_seq = old.file_seq
                     /\ new.prev_file_seq = old.prev_file_seq
                     /\ new.prev_file_offset = old.prev_file_offset
                     /\ new.refcount = old.refcount
                     /\ ~FILE_IN_MEMORY(old) =>
                           /\ new.sync_offset = inodes[old.fd].size
                           /\ new.file_seq = inodes[old.fd].file_seq
                           /\ inodes' = inodes]_vars

\* move_to_memory has converted a disk head that had grown past its
\* header, while an older segment of the chain is still open on disk
C15_Witness ==
    /\ last.op = "move_to_memory" /\ last.ret = 0
    /\ ~IN_MEMORY(Self) /\ HeadValid(Self)
    /\ FILE_IN_MEMORY(HeadOf(Self))
    /\ HeadOf(Self).sync_offset > HdrSize
    /\ \E o \in OlderFiles(Self) : ~FILE_IN_MEMORY(log[Self].objs[o])

\* the inputs of find_file: the failure injected into its syscalls
FindErrs == {"none", "stat", "open", "archive", "corrupt"}

\* the canonical log file is still the one installed as head
HeadIsCanonical(p) ==
    FILE_IN_MEMORY(HeadOf(p)) \/ HeadOf(p).st_ino = disk.canon

\* C16: find_file(seq) with seq > head.file_seq, when the canonical file
\* was not replaced since the head was installed, returns NotFound (0),
\* never Error (-1), and leaves head and files unchanged, locked or not.
C16_NewerSeqNotFound ==
    (Idle(Self) /\ HeadValid(Self) /\ HeadIsCanonical(Self)) =>
        \A seq \in (HeadOf(Self).file_seq + 1)..MaxSeq, err \in FindErrs :
            LET c == find_file(Ctx(Self), Self, IN_MEMORY(Self), seq, err)
            IN  /\ c.ret = 0 /\ c.file = 0
                /\ c.log = log[Self]

\* C16 (amended): as above, except that with an unlocked on-disk head a
\* failing stat() of the canonical path makes find_file return -1; head
\* and files are unchanged in either case.
C16_NewerSeqNotFoundUnlessStatFails ==
    (Idle(Self) /\ HeadValid(Self) /\ HeadIsCanonical(Self)) =>
        \A seq \in (HeadOf(Self).file_seq + 1)..MaxSeq, err \in FindErrs :
            LET c == find_file(Ctx(Self), Self, IN_MEMORY(Self), seq, err)
                statfails == /\ err = "stat"
                             /\ ~HeadOf(Self).locked
                             /\ ~FILE_IN_MEMORY(HeadOf(Self))
            IN  /\ c.ret = IF statfails THEN -1 ELSE 0
                /\ c.file = 0
                /\ c.log = log[Self] /\ ~c.undef

\* find_file for a newer segment has just returned NotFound on a locked
\* head that is still the canonical file
C16_Witness ==
    /\ last.op = "find_file" /\ last.ret = 0
    /\ HeadValid(Self) /\ HeadIsCanonical(Self)
    /\ last.arg > HeadOf(Self).file_seq
    /\ HeadOf(Self).locked /\ ~FILE_IN_MEMORY(HeadOf(Self))
    /\ disk.arch # 0

\* C17 as claimed: find_file(k) for a k that is not held consults the
\* ".2" archive and returns 1 with that file exactly when the archive's
\* header holds file_seq k, and 0 (never -1) with no file otherwise.
\* (k is taken below the head, where nothing but the archive is read.)
C17_ArchiveLookupNoError ==
    (Idle(Self) /\ HeadValid(Self) /\ ~IN_MEMORY(Self)) =>
        \A k \in 1..(HeadOf(Self).file_seq - 1),
           err \in {"none", "corrupt", "archive"} :
            LET c0 == Ctx(Self)
                c  == find_file(c0, Self, FALSE, k, err)
                a  == disk.arch
                holds == a # 0 /\ err # "corrupt" /\ inodes[a].file_seq = k
            IN  (ListFind(c0, c0.log.files, k) = 0 /\ c.ret # Blocked) =>
                    /\ c.ret = IF holds THEN 1 ELSE 0
                    /\ ~holds => c.file = 0

\* C17: find_file(k) for a k below the head that is not in the chain
\* consults the ".2" archive: it returns 1 with that file exactly when
\* the archive can be opened and its header holds file_seq k; it returns
\* -1 when the archive exists and opening it fails with an I/O error;
\* when the archive is absent, corrupt or holds another file_seq it
\* returns 0.  No file is set unless 1 is returned, and the head stays.
\* For a k above the head (the head is refreshed first) a returned file
\* holds file_seq k, no file is set otherwise, and -1 is returned only
\* after an I/O error.
C17_ArchiveLookup ==
    (Idle(Self) /\ HeadValid(Self) /\ ~IN_MEMORY(Self)) =>
        /\ \A k \in 1..(HeadOf(Self).file_seq - 1),
              err \in {"none", "corrupt", "archive"} :
            LET c0 == Ctx(Self)
                c  == find_file(c0, Self, FALSE, k, err)
                a  == disk.arch
                ioerr == a # 0 /\ err = "archive"
                holds == a # 0 /\ err = "none" /\ inodes[a].file_seq = k
            IN  (ListFind(c0, c0.log.files, k) = 0 /\ c.ret # Blocked) =>
                    /\ c.ret = IF ioerr THEN -1 ELSE IF holds THEN 1 ELSE 0
                    /\ holds => /\ c.file # 0
                                /\ Obj(c, c.file).file_seq = k
                                /\ Obj(c, c.file).fd = a
                    /\ ~holds => c.file = 0
                    /\ c.log.head = c0.log.head
        /\ \A k \in (HeadOf(Self).file_seq + 1)..MaxSeq,
              err \in {"none", "stat", "open", "archive", "corrupt"} :
            LET c == find_file(Ctx(Self), Self, FALSE, k, err)
            IN  (c.ret # Blocked /\ ~c.undef) =>
                    /\ c.ret \in {-1, 0, 1}
                    /\ c.ret = -1 => err \in {"stat", "open", "archive"}
                    /\ c.ret = 1 => /\ c.file # 0
                                    /\ Obj(c, c.file).file_seq = k
                    /\ c.ret # 1 => c.file = 0

\* find_file(k) has just found segment k in the archive: the file is
\* listed, unreferenced, below the head
C17_Witness ==
    /\ last.op = "find_file" /\ last.ret = 1
    /\ HeadValid(Self) /\ last.arg < HeadOf(Self).file_seq
    /\ disk.arch # 0 /\ inodes[disk.arch].file_seq = last.arg
    /\ \E o \in OlderFiles(Self) :
          /\ log[Self].objs[o].file_seq = last.arg
          /\ log[Self].objs[o].fd = disk.arch
          /\ log[Self].objs[o].refcount = 0

\* C18: when sync_lock returns -1 (lock, refresh or map failure; the
\* caller is back at "idle") the
\* index is not log_locked and the caller holds no lock on any log
\* file; when it returns 0 its outputs are (head.file_seq,
\* head.sync_offset) of the head that is locked at return.
C18_SyncLockResult ==
    /\ (/\ last.op \in {"sync_lock", "lock_head"} /\ last.ret = -1
        /\ pc[last.p] = "idle") =>
          LET p == last.p IN
          /\ ~index[p].log_locked
          /\ \A i \in Inos : flock[i] # p
          /\ \A o \in ObjIds : ~log[p].objs[o].locked
    /\ (last.op = "sync_lock" /\ last.ret = 0) =>
          LET p == last.p IN
          /\ index[p].log_locked
          /\ HeadOf(p).alive /\ HeadOf(p).locked
          /\ flock[HeadOf(p).fd] = p
          /\ last.arg = <<HeadOf(p).file_seq, HeadOf(p).sync_offset>>
          /\ HeadOf(p).sync_offset = inodes[HeadOf(p).fd].size

\* sync_lock has just failed in file_map(), after lock_head had locked
\* the head of a log that was rotated before
C18_Witness ==
    /\ last.op = "sync_lock" /\ last.ret = -1
    /\ HeadValid(last.p) /\ HeadOf(last.p).fd = disk.canon
    /\ disk.arch # 0

\* C20: a successful rotate drops exactly one reference (the Log's own)
\* on the old head: when that was the last one the old head is purged,
\* otherwise it stays allocated and listed, pinned by its readers, and
\* is unlocked; and no step destroys a LogFile that a reader still pins
\* (it is purged only by the view_close that removes its last pin, or by
\* close(), which closes every view first).
C20_RotateDropsOwnReference ==
    [][/\ (/\ last'.op = "rotate" /\ last'.ret = 0
           /\ HeadOf(Self).locked /\ log'[Self].head # log[Self].head)
          => LET h   == log[Self].head
                 old == HeadOf(Self)
                 new == log'[Self].objs[h]
             IN  IF old.refcount = 1
                 THEN /\ ~new.alive
                      /\ [refcount |-> 0, pins |-> 0] \in freed'
                      /\ \A k \in 1..Len(log'[Self].files) :
                             log'[Self].files[k] # h
                 ELSE /\ new.alive
                      /\ new.refcount = old.refcount - 1
                      /\ views'[Self][h] = views[Self][h]
                      /\ new.refcount = views'[Self][h]
                      /\ new.refcount > 0
                      /\ ~new.locked
                      /\ \A i \in Inos : flock'[i] # Self
                      /\ \E k \in 1..Len(log'[Self].files) :
                             log'[Self].files[k] = h
       /\ \A o \in ObjIds :
             (log[Self].objs[o].alive /\ ~log'[Self].objs[o].alive)
                => /\ views'[Self][o] = 0
                   /\ (views[Self][o] >= 1
                         => last'.op \in {"view_close", "close"})
                   /\ (last'.op = "view_close" => views[Self][o] <= 1)
      ]_vars

\* rotate has just succeeded on a head that a reader pins: the old head
\* is retained with the reader's reference only, and unlocked
C20_Witness ==
    /\ last.op = "rotate" /\ last.ret = 0 /\ HeadValid(Self)
    /\ \E o \in OlderFiles(Self) :
           /\ log[Self].objs[o].file_seq + 1 = HeadOf(Self).file_seq
           /\ views[Self][o] = 1
           /\ log[Self].objs[o].refcount = 1
           /\ ~log[Self].objs[o].locked

\* C19: in every state in which it can be called, want_rotate returns
\* true exactly when head.sync_offset is above ROTATE_MAX_SIZE, or
\* head.sync_offset is above ROTATE_MIN_SIZE and the head's age
\* (ioloop_time - create_stamp) is above ROTATE_TIME; and it returns
\* false when the last call that returned was a create or a rotate
\* that gave no error.
C19_WantRotate ==
    (Running(Self) /\ HeadValid(Self)) =>
        LET f   == HeadOf(Self)
            age == ioloop_time - f.create_stamp
            r   == want_rotate(Ctx(Self))
        IN  /\ r <=>
                  \/ f.sync_offset > MAIL_TRANSACTION_LOG_ROTATE_MAX_SIZE
                  \/ /\ f.sync_offset > MAIL_TRANSACTION_LOG_ROTATE_MIN_SIZE
                     /\ age > MAIL_TRANSACTION_LOG_ROTATE_TIME
            /\ (last.op \in {"create", "rotate"} /\ last.ret >= 0) => ~r

\* want_rotate has just returned true for a head that is not above the
\* maximum size but above the minimum and older than ROTATE_TIME
C19_Witness ==
    /\ last.op = "want_rotate" /\ last.ret = 1 /\ HeadValid(Self)
    /\ HeadOf(Self).sync_offset <= MAIL_TRANSACTION_LOG_ROTATE_MAX_SIZE
    /\ HeadOf(Self).sync_offset > MAIL_TRANSACTION_LOG_ROTATE_MIN_SIZE
    /\ ioloop_time - HeadOf(Self).create_stamp
          > MAIL_TRANSACTION_LOG_ROTATE_TIME

\* C21: when rotate returns -1 (fstat failure, or the new file cannot
\* be created) log.head is the same LogFile as before, with the same
\* refcount and lock state, the files chain is unchanged and the Log
\* stays usable; and a refresh that returns -1 (stat failure, or the new
\* file cannot be opened) would leave the Log just as it is.
C21_FailureKeepsHead ==
    [][/\ (last'.op = "rotate" /\ last'.ret = -1 /\ Idle(Self)
           /\ HeadValid(Self) /\ HeadOf(Self).locked)
          => /\ log'[Self] = log[Self]
             /\ flock' = flock
             /\ Running(Self)'
       /\ (Idle(Self) /\ HeadValid(Self))
          => \A err \in {"none", "stat", "open"} :
                LET c == refresh(Ctx(Self), Self, err) IN
                c.ret = -1 =>
                    /\ c.log = log[Self]
                    /\ c.flock = flock
                    /\ ~c.undef
      ]_vars

\* C22: refresh changes the head exactly when the file at the canonical
\* path is another file than the head and can be opened: it then
\* installs that file as the new, unlocked head and drops the Log's
\* reference on the old head, purging it if unreferenced; when the
\* identity is unchanged, or the head is in memory, it returns 0 and
\* changes nothing.
C22_RefreshAdoptsNewFile ==
    (Idle(Self) /\ HeadValid(Self)) =>
        \A err \in {"none", "stat", "open"} :
            LET h == log[Self].head
                f == HeadOf(Self)
                c == refresh(Ctx(Self), Self, err)
                n == Obj(c, c.log.head)
            IN  IF FILE_IN_MEMORY(f)
                   \/ (err # "stat" /\ f.st_ino = disk.canon)
                THEN c.ret = 0 /\ c.log = log[Self] /\ c.flock = flock
                ELSE IF err = "none" /\ disk.canon # 0 /\ c.ret # Blocked
                THEN /\ c.ret = 0 /\ ~c.undef
                     /\ c.log.head # h
                     /\ n.alive /\ n.fd = disk.canon /\ ~n.locked
                     /\ n.refcount = 1
                     /\ IF f.refcount = 1
                        THEN ~Obj(c, h).alive
                        ELSE /\ Obj(c, h).alive
                             /\ Obj(c, h).refcount = f.refcount - 1
                ELSE c.ret # 0 /\ c.log.head = h

\* C23: whenever index.log_locked is true the head is locked by this
\* process, in every state between a successful sync_lock and its
\* sync_unlock, also after a rotate in between.
C23_LogLockedHeadLocked ==
    \A p \in Procs :
        (Running(p) /\ Idle(p) /\ index[p].log_locked) =>
            /\ HeadValid(p) /\ HeadOf(p).locked
            /\ ~FILE_IN_MEMORY(HeadOf(p)) => flock[HeadOf(p).fd] = p

\* C24: between operations, a Log that has a head has a live head with
\* refcount >= 1, every LogFile's refcount is the number of its holders
\* (1 for being the head plus one per view pinning it), no refcount is
\* negative, and the pin lock_head takes around refresh is gone when
\* lock_head has returned or retries.
C24_RefcountIsHolders ==
    \A p \in Procs :
        pc[p] # "aborted" =>
            /\ HasHead(p) => (HeadOf(p).alive /\ HeadOf(p).refcount >= 1)
            /\ \A o \in ObjIds :
                  /\ log[p].objs[o].refcount >= 0
                  /\ log[p].objs[o].refcount
                        = (IF o = log[p].head THEN 1 ELSE 0) + views[p][o]

\* the list without its entry for uid
Without(msgs, uid) == SelectSeq(msgs, LAMBDA u : u # uid)

\* C25: imap_msgcache_open(uid) returns with the entry for uid first in
\* the list and the other entries in the order they had; nothing is
\* dropped unless uid is new and the list holds MAX_CACHED_MESSAGES
\* entries, and then exactly the list tail is dropped; no two entries
\* of the list share a uid.
C25_OpenIsLRU ==
    [][last'.op = "imap_msgcache_open" =>
          LET uid == last'.arg
              old == cache.messages
              new == cache'.messages
          IN  /\ cache'.pc = "ok"
              /\ new # <<>> /\ new[1] = uid
              /\ Tail(new) =
                    IF IsCached(uid) THEN Without(old, uid)
                    ELSE IF Len(old) < MAX_CACHED_MESSAGES THEN old
                    ELSE SubSeq(old, 1, Len(old) - 1)
              /\ \A i, j \in 1..Len(new) : new[i] = new[j] => i = j]_vars

\* C26: the list of the cache has messages_count entries, at most
\* MAX_CACHED_MESSAGES, and no call has walked an empty list for its
\* last entry.
C26_CountIsListLength ==
    /\ cache.pc = "ok"
    /\ Len(cache.messages) = cache.messages_count
    /\ cache.messages_count <= MAX_CACHED_MESSAGES

\* what config_filter_parser_cmp ranks by, most significant first: a
\* local_name, the local prefix length, the remote prefix length, a
\* service
Specificity(f) ==
    <<IF f.local_name # NULL THEN 1 ELSE 0, f.local_bits, f.remote_bits,
      IF f.service # NULL THEN 1 ELSE 0>>

\* a is more specific than b: greater at the first key that differs
MoreSpecific(a, b) ==
    \E k \in 1..4 :
        /\ Specificity(a)[k] > Specificity(b)[k]
        /\ \A h \in 1..k - 1 : Specificity(a)[h] = Specificity(b)[h]

\* C27: config_filter_parser_cmp puts the more specific filter first
\* (-1) and is antisymmetric, and config_filter_find_subset returns each
\* parser of the context exactly once with no parser placed before a
\* less specific one.
C27_FindSubsetSorted ==
    /\ \A i, j \in 1..Len(ctx.parsers) :
          LET a == ctx.parsers[i]
              b == ctx.parsers[j]
          IN  /\ config_filter_parser_cmp(a, b)
                    = - config_filter_parser_cmp(b, a)
              /\ config_filter_parser_cmp(a, b) = -1 <=> MoreSpecific(a, b)
              /\ config_filter_parser_cmp(a, b) = 1 <=> MoreSpecific(b, a)
    /\ last.op = "config_filter_find_subset" =>
          /\ Len(ctx.matches) = Len(ctx.parsers)
          /\ \A k \in 1..Len(ctx.parsers) :
                Cardinality({i \in 1..Len(ctx.matches) :
                                ctx.matches[i] = k}) = 1
          /\ \A i, j \in 1..Len(ctx.matches) :
                i < j => ~MoreSpecific(ctx.parsers[ctx.matches[i]],
                                       ctx.parsers[ctx.matches[j]])

\* three parsers of three different ranks were loaded in an order that
\* is not the sorted one, and find_subset has returned
C27_Witness ==
    /\ last.op = "config_filter_find_subset"
    /\ Len(ctx.parsers) = 3
    /\ MoreSpecific(ctx.parsers[1], ctx.parsers[2])
    /\ MoreSpecific(ctx.parsers[3], ctx.parsers[1])
    /\ ctx.matches = <<2, 1, 3>>
    /\ ctx.parsers[2].service # NULL /\ ctx.parsers[1].local_name # NULL
====
